---- MODULE Spec2Model ----
(***************************************************************************)
(* A model of app.py: the generator build_and_push_image, which logs in to *)
(* a registry, clones a repository into a temporary directory, builds a    *)
(* Docker image from it and pushes it, yielding the HTML log after every   *)
(* step, and of the pure helpers it calls; of a caller that consumes the   *)
(* snapshots or closes the generator; and of the queue of the click event  *)
(* through which the application starts the runs.                          *)
(*                                                                         *)
(* Text that the code takes apart or puts together (the repository URL,    *)
(* the image name, the account, the image reference, stderr) is a sequence *)
(* of one-character strings.  A literal of the source that is only copied  *)
(* into a log message is one string.                                       *)
(***************************************************************************)
EXTENDS Integers, Sequences, FiniteSets, TLC

\* -------------------------------------------------------------------------
\* Text helpers: the str methods the code uses.
\* -------------------------------------------------------------------------

\* s.startswith(p)
StartsWith(s, p) == Len(s) >= Len(p) /\ SubSeq(s, 1, Len(p)) = p

\* s.find(c) for a one-character c, 1-based; 0 when c does not occur.
Find(s, c) ==
  IF \E i \in 1..Len(s) : s[i] = c
  THEN CHOOSE i \in 1..Len(s) : s[i] = c /\ \A j \in 1..(i - 1) : s[j] # c
  ELSE 0

\* The first position at or after `from` holding a character of cs; Len(s)+1
\* when there is none.
FindAny(s, cs, from) ==
  IF \E i \in from..Len(s) : s[i] \in cs
  THEN CHOOSE i \in from..Len(s) : s[i] \in cs /\ \A j \in from..(i - 1) : s[j] \notin cs
  ELSE Len(s) + 1

\* s.split(c): the pieces between the occurrences of c (never empty as a list).
RECURSIVE Split(_, _)
Split(s, c) ==
  LET i == Find(s, c)
  IN IF i = 0 THEN <<s>>
     ELSE <<SubSeq(s, 1, i - 1)>> \o Split(SubSeq(s, i + 1, Len(s)), c)

\* s.strip(c): c removed from both ends.
RECURSIVE Strip(_, _)
Strip(s, c) ==
  IF s = <<>> THEN s
  ELSE IF s[1] = c THEN Strip(Tail(s), c)
  ELSE IF s[Len(s)] = c THEN Strip(SubSeq(s, 1, Len(s) - 1), c)
  ELSE s

\* True when t occurs in s as a contiguous run of elements.
Contains(s, t) ==
  \E i \in 1..(Len(s) - Len(t) + 1) : SubSeq(s, i, i + Len(t) - 1) = t

LowerChars ==
  {"a", "b", "c", "d", "e", "f", "g", "h", "i", "j", "k", "l", "m",
   "n", "o", "p", "q", "r", "s", "t", "u", "v", "w", "x", "y", "z"}

UpperChars ==
  {"A", "B", "C", "D", "E", "F", "G", "H", "I", "J", "K", "L", "M",
   "N", "O", "P", "Q", "R", "S", "T", "U", "V", "W", "X", "Y", "Z"}

DigitChars == {"0", "1", "2", "3", "4", "5", "6", "7", "8", "9"}

SeparatorChars == {".", "-", "_"}

\* -------------------------------------------------------------------------
\* urllib.parse.urlparse(url).path, for URLs over letters, digits and the
\* punctuation : / @ . ? # + - _ (no whitespace, control characters,
\* brackets or semicolons, which urlparse treats specially).
\* -------------------------------------------------------------------------

SchemeChars == LowerChars \cup UpperChars \cup DigitChars \cup {"+", "-", "."}

\* The URL with its scheme and the colon after it removed, when it has one.
AfterScheme(url) ==
  LET i == Find(url, ":")
  IN IF /\ i > 1
        /\ url[1] \in LowerChars \cup UpperChars
        /\ \A j \in 1..(i - 1) : url[j] \in SchemeChars
     THEN SubSeq(url, i + 1, Len(url))
     ELSE url

\* The rest with the network location "//host" removed, when it has one.
AfterNetloc(rest) ==
  IF StartsWith(rest, <<"/", "/">>)
  THEN SubSeq(rest, FindAny(rest, {"/", "?", "#"}, 3), Len(rest))
  ELSE rest

\* s cut before the first c, when c occurs.
Before(s, c) == IF Find(s, c) = 0 THEN s ELSE SubSeq(s, 1, Find(s, c) - 1)

UrlPath(url) == Before(Before(AfterNetloc(AfterScheme(url)), "#"), "?")

\* -------------------------------------------------------------------------
\* extract_github_username: the account of a repository URL.  The result is
\* a record: raised is TRUE when the code raises IndexError.
\* -------------------------------------------------------------------------

GitAt == <<"g", "i", "t", "@">>

Returned(v) == [raised |-> FALSE, value |-> v]

Raised == [raised |-> TRUE, value |-> <<>>]

extract_github_username(repo_url) ==
  IF StartsWith(repo_url, GitAt)
  THEN LET parts == Split(repo_url, ":")
       IN IF Len(parts) < 2 THEN Raised
          ELSE Returned(Split(parts[2], "/")[1])
  ELSE Returned(Split(Strip(UrlPath(repo_url), "/"), "/")[1])

\* -------------------------------------------------------------------------
\* validate_image_name
\* -------------------------------------------------------------------------

AlnumChars == LowerChars \cup DigitChars

\* The pattern [a-z0-9][a-z0-9._-]*[a-z0-9] matched against all of s.
FullMatch(s) ==
  /\ Len(s) >= 2
  /\ s[1] \in AlnumChars
  /\ s[Len(s)] \in AlnumChars
  /\ \A i \in 1..Len(s) : s[i] \in AlnumChars \cup SeparatorChars

\* re.match(r'^[a-z0-9][a-z0-9._-]*[a-z0-9]$', s): in Python "$" matches at
\* the end of the string and also just before a line break that ends it.
ReMatch(s) ==
  \/ FullMatch(s)
  \/ /\ Len(s) >= 1
     /\ s[Len(s)] = "\n"
     /\ FullMatch(SubSeq(s, 1, Len(s) - 1))

EmptyNameMsg == "Image name cannot be empty"

BadNameMsg == "Image name must contain only lowercase letters, numbers, and separators (., -, _), and must start and end with a letter or number"

\* The pair (is_valid, error_message).
validate_image_name(image_name) ==
  IF image_name = <<>> THEN [is_valid |-> FALSE, error_msg |-> EmptyNameMsg]
  ELSE IF ~ReMatch(image_name) THEN [is_valid |-> FALSE, error_msg |-> BadNameMsg]
  ELSE [is_valid |-> TRUE, error_msg |-> ""]

\* -------------------------------------------------------------------------
\* The inputs of the runs that are checked.
\* -------------------------------------------------------------------------

\* A literal of the source as text.
Lit(s) == <<s>>

RepoUrls ==
  { <<"h", "t", "t", "p", "s", ":", "/", "/", "h", "/", "a", "l", "/", "r">>,
    <<"g", "i", "t", "@", "h", ":", "a", "l", "/", "r">>,
    <<"h", "t", "t", "p", "s", ":", "/", "/", "h">>,
    <<"g", "i", "t", "@", "h">> }

ImageNames == { <<"a", "b">>, <<"a", "-">>, <<>> }

\* The optional username: the empty text stands for None and for "", which
\* the code does not tell apart.
Usernames == { <<>>, <<"b", "o">> }

Tokens == { <<"t", "k">> }

GHCR == "GitHub Container Registry (GHCR)"

DockerHub == "Docker Hub"

Registries == {GHCR, DockerHub}

Subdirs == { <<".">>, <<"b">>, <<"/", "e">> }

\* What an external process can return: the exit status and, for a failed
\* process, the text it wrote to stderr (the code never reads the stderr of
\* a process that succeeded).
StderrTexts == { <<"e", "r", "r">>, <<>> }

ProcessResults ==
  {[returncode |-> 0, stderr |-> <<>>]}
    \cup {[returncode |-> c, stderr |-> e] : c \in {1, -9}, e \in StderrTexts}

\* The clock stops at MaxClock.
MaxClock == 2

\* -------------------------------------------------------------------------
\* Paths: os.path.join on POSIX, and the directory tempfile.mkdtemp returns.
\* -------------------------------------------------------------------------

Join2(path, b) ==
  IF StartsWith(b, <<"/">>) THEN b
  ELSE IF path = <<>> \/ path[Len(path)] = "/" THEN path \o b
  ELSE path \o <<"/">> \o b

PathJoin(a, b, c) == Join2(Join2(a, b), c)

DockerfileName == <<"D", "o", "c", "k", "e", "r", "f", "i", "l", "e">>

\* The directory mkdtemp creates, and the directory the process starts in.
NewTempDir == <<"/", "t">>

StartDir == <<"/", "a">>

None == <<>>

\* True when path p is directory d or lies under it.
Under(p, d) == p = d \/ StartsWith(p, d \o <<"/">>)

\* -------------------------------------------------------------------------
\* The state
\* -------------------------------------------------------------------------

VARIABLES
  repo_url, registry_token, image_name, username, registry, dockerfile_subdir,
  temp_dir, status_messages, original_cwd,
  gh_username, registry_url, full_image_name,
  pc,        \* where the generator is suspended
  yielded,   \* the snapshots the caller has received, in order
  calls,     \* the external operations performed, in order
  cwd,       \* the working directory of the process
  fs,        \* the paths that exist
  now,       \* what time.strftime reads
  chdirs,    \* the os.chdir calls of the run, in order
  event_queue,  \* the requests of the click event that wait, in order
  active_jobs,  \* the requests of the click event that are being processed
  other      \* a second run of build_and_push_image, in outline

inputs == <<repo_url, registry_token, image_name, username, registry, dockerfile_subdir>>

target == <<gh_username, registry_url, full_image_name>>

\* What the hosting application holds: the queue of the click event, and the
\* second run.
host == <<event_queue, active_jobs, other>>

vars ==
  <<inputs, temp_dir, status_messages, original_cwd, target, pc, yielded, calls, cwd, fs, now,
    chdirs, host>>

\* -------------------------------------------------------------------------
\* The log
\* -------------------------------------------------------------------------

InfoColor == "#2196F3"

SuccessColor == "#4CAF50"

ErrorColor == "#F44336"

\* colors.get(status, colors["info"])
ColorOf(status) ==
  CASE status = "info" -> InfoColor
    [] status = "success" -> SuccessColor
    [] status = "error" -> ErrorColor
    [] OTHER -> InfoColor

\* One entry of the log: the div with its colour, the time of day read when
\* the entry is made, and the message.
format_status_message(message, status) ==
  [color |-> ColorOf(status), timestamp |-> now', message |-> message]

LogOpen == "<div style=\"background-color: #1E1E1E; padding: 15px; border-radius: 5px; border: 1px solid #333; font-family: monospace;\">"

LogClose == "</div>"

\* The snapshot: the entries joined inside the outer div.
_format_log(messages) == [open |-> LogOpen, entries |-> messages, close |-> LogClose]

\* A step that starts the log afresh instead of adding to it.
EmitReplacing(entries, to) ==
  /\ status_messages' = entries
  /\ yielded' = Append(yielded, _format_log(status_messages'))
  /\ pc' = to

\* status_messages.append(...) for each of entries, then yield _format_log(
\* status_messages); the generator is suspended at `to`.
Emit(entries, to) ==
  /\ status_messages' = status_messages \o entries
  /\ yielded' = Append(yielded, _format_log(status_messages'))
  /\ pc' = to

\* The entry of the except clause made without its severity.
FaultEntryInfo(text) == format_status_message(<<"Error: ", text>>, "info")

\* Lines 184-186: the entry "Error: ..." of the except clause.
FaultEntry(text) == format_status_message(<<"Error: ", text>>, "error")

\* The except clause: the entry and a snapshot.
Fault(text) == Emit(<<FaultEntry(text)>>, "faulted")

\* One external operation, as it happened: what was run, what it was given on
\* standard input, in which working directory, how it ended ("ok", "failed",
\* "raised" for an exception) and what a failed process wrote to stderr.
Call(op, argv, stdin, outcome, stderr) ==
  [op |-> op, argv |-> argv, stdin |-> stdin, cwd |-> cwd, outcome |-> outcome,
   stderr |-> stderr]

\* One os.chdir call, as it happened: where to, and whether it succeeded.
Chdir(to, ok) == [to |-> to, ok |-> ok]

\* The two runs of the function: the one described step by step, and the
\* second one.
ThisRun == "this"

OtherRun == "other"

\* How a process that ran ended: with exit status 0 or with another one.
Exit(result) == IF result.returncode = 0 THEN "ok" ELSE "failed"

\* A test for failure that misses a process killed by a signal.
FailedPositive(result) == result.returncode > 0

\* if result.returncode != 0
Failed(result) == result.returncode # 0

\* A failure message without the text of stderr.
FailureMessageTerse(prefix, result) == prefix

\* f"...: {result.stderr}"
FailureMessage(prefix, result) == prefix \o result.stderr

\* A blocking call takes time: the clock may have moved on when it returns.
TimePasses == now' \in {now} \cup {t \in {now + 1} : t <= MaxClock}

\* The generator as build_and_push_image(...) returns it: nothing of its body
\* has run.  The second run has not begun either.
Fresh ==
  /\ temp_dir = None
  /\ status_messages = <<>>
  /\ original_cwd = None
  /\ gh_username = None
  /\ registry_url = None
  /\ full_image_name = None
  /\ pc = "start"
  /\ yielded = <<>>
  /\ calls = <<>>
  /\ chdirs = <<>>
  /\ cwd = StartDir
  /\ now = 0
  /\ other = [pc |-> "start", original_cwd |-> None]

\* One run, which the caller has begun.
Init ==
  /\ repo_url \in RepoUrls
  /\ registry_token \in Tokens
  /\ image_name \in ImageNames
  /\ username \in Usernames
  /\ registry \in Registries
  /\ dockerfile_subdir \in Subdirs
  /\ fs \in { {StartDir}, {StartDir, PathJoin(NewTempDir, <<"/", "e">>, DockerfileName)} }
  /\ Fresh
  /\ event_queue = <<>>
  /\ active_jobs = {ThisRun}

\* -------------------------------------------------------------------------
\* build_and_push_image.  Each action is one resumption of the generator by
\* its caller: the code from one yield to the next.
\* -------------------------------------------------------------------------

GhcrHost == <<"g", "h", "c", "r", ".", "i", "o">>

DockerHost == <<"d", "o", "c", "k", "e", "r", ".", "i", "o">>

\* gh_username = username if username else extract_github_username(repo_url)
ResolveUsername == IF username # <<>> THEN Returned(username) ELSE extract_github_username(repo_url)

RegistryUrlOf(reg) == IF reg = DockerHub THEN DockerHost ELSE GhcrHost

\* A reference that names the registry host for Docker Hub too.
FullImageNameWithHost(reg, account, name) ==
  (IF reg = DockerHub THEN DockerHost ELSE GhcrHost) \o <<"/">> \o account \o <<"/">> \o name

\* Lines 91 and 94: full_image_name
FullImageName(reg, account, name) ==
  IF reg = DockerHub THEN account \o <<"/">> \o name
  ELSE GhcrHost \o <<"/">> \o account \o <<"/">> \o name

\* Lines 88-103, up to the first yield: the account, the target, the first
\* of the two opening entries.  extract_github_username can raise.
Proceed ==
  LET u == ResolveUsername
  IN IF u.raised
     THEN /\ Fault("list index out of range")
          /\ UNCHANGED target
     ELSE /\ gh_username' = u.value
          /\ registry_url' = RegistryUrlOf(registry)
          /\ full_image_name' = FullImageName(registry, u.value, image_name)
          /\ Emit(<<format_status_message(
                      <<"Starting build process for ">> \o full_image_name' \o <<"...">>,
                      "info")>>,
                  "announced")

\* A validation whose verdict is not acted on.
RejectIgnored(v) == Proceed

\* Lines 83-86: the name is refused.
Reject(v) ==
  /\ Emit(<<format_status_message(<<"Invalid image name: ", v.error_msg>>, "error")>>,
          "invalid")
  /\ UNCHANGED target

\* Lines 78-103, up to the first yield.
Start ==
  /\ pc = "start"
  /\ ThisRun \in active_jobs
  /\ now' = now
  /\ temp_dir' = None
  /\ UNCHANGED <<inputs, calls, cwd, fs, chdirs, host>>
  /\ IF cwd \notin fs
     THEN \* line 80: os.getcwd() raises, outside the try block
          /\ pc' = "raised"
          /\ UNCHANGED <<original_cwd, status_messages, yielded, target>>
     ELSE /\ original_cwd' = cwd
          /\ LET v == validate_image_name(image_name)
             IN IF ~v.is_valid THEN Reject(v) ELSE Proceed

\* Lines 100-103, the second turn of the loop.
Announce ==
  /\ pc = "announced"
  /\ now' = now
  /\ Emit(<<format_status_message(
              <<"Authenticating with ">> \o registry_url \o <<"...">>, "info")>>,
          "authenticating")
  /\ UNCHANGED <<inputs, temp_dir, original_cwd, target, calls, cwd, fs, chdirs, host>>

\* subprocess.run raises when the program cannot be started.
NotStarted(program) == "[Errno 2] No such file or directory: '" \o program \o "'"

\* A login that hands the token over as an argument.
LoginCmdWithPassword ==
  <<Lit("docker"), Lit("login"), registry_url, Lit("-u"), gh_username, Lit("-p"),
    registry_token>>

\* Line 105: login_cmd
LoginCmd ==
  <<Lit("docker"), Lit("login"), registry_url, Lit("-u"), gh_username,
    Lit("--password-stdin")>>

\* Lines 105-114: docker login, the token on standard input.
Login ==
  /\ pc = "authenticating"
  /\ TimePasses
  /\ UNCHANGED <<inputs, temp_dir, original_cwd, target, cwd, fs, chdirs, host>>
  /\ LET login_cmd == LoginCmd
     IN \/ /\ calls' = Append(calls, Call("login", login_cmd, registry_token, "raised", <<>>))
           /\ Fault(NotStarted("docker"))
        \/ \E result \in ProcessResults :
             /\ calls' = Append(calls, Call("login", login_cmd, registry_token, Exit(result),
                                            result.stderr))
             /\ IF Failed(result)
                THEN Emit(<<format_status_message(
                              FailureMessage(<<"Failed to authenticate with ">> \o registry_url
                                               \o <<": ">>, result), "error")>>,
                          "auth_failed")
                ELSE Emit(<<format_status_message(
                              <<"Successfully authenticated with ">> \o registry_url,
                              "success")>>,
                          "authenticated")

\* Lines 116-119: tempfile.mkdtemp.
Acquire ==
  /\ pc = "authenticated"
  /\ now' = now
  /\ UNCHANGED <<inputs, original_cwd, target, cwd, chdirs, host>>
  /\ \/ /\ calls' = Append(calls, Call("mkdtemp", <<>>, None, "raised", <<>>))
        /\ Fault("[Errno 28] No space left on device")
        /\ UNCHANGED <<temp_dir, fs>>
     \/ /\ calls' = Append(calls, Call("mkdtemp", <<>>, None, "ok", <<>>))
        /\ temp_dir' = NewTempDir
        /\ fs' = fs \cup {NewTempDir}
        /\ Emit(<<format_status_message(
                    <<"Created temporary directory: ">> \o temp_dir', "info")>>,
                "acquired")

\* Lines 121-123.
AnnounceClone ==
  /\ pc = "acquired"
  /\ now' = now
  /\ Emit(<<format_status_message(<<"Cloning repository: ">> \o repo_url, "info")>>,
          "cloning")
  /\ UNCHANGED <<inputs, temp_dir, original_cwd, target, calls, cwd, fs, chdirs, host>>

\* The Dockerfiles a cloned repository can hold: one in any of its
\* directories that a request can name.
RepoLayouts == SUBSET { <<".">>, <<"b">> }

\* Lines 124-133: git clone into the temporary directory.
Clone ==
  /\ pc = "cloning"
  /\ TimePasses
  /\ UNCHANGED <<inputs, temp_dir, original_cwd, target, cwd, chdirs, host>>
  /\ LET clone_cmd == <<Lit("git"), Lit("clone"), repo_url, temp_dir>>
     IN \/ /\ calls' = Append(calls, Call("clone", clone_cmd, None, "raised", <<>>))
           /\ Fault(NotStarted("git"))
           /\ UNCHANGED fs
        \/ \E result \in ProcessResults :
             /\ calls' = Append(calls, Call("clone", clone_cmd, None, Exit(result),
                                            result.stderr))
             /\ IF Failed(result)
                THEN /\ Emit(<<format_status_message(
                                 FailureMessage(<<"Failed to clone repository: ">>, result),
                                 "error")>>,
                             "clone_failed")
                     /\ UNCHANGED fs
                ELSE /\ \E layout \in RepoLayouts :
                          fs' = fs \cup {PathJoin(temp_dir, d, DockerfileName) : d \in layout}
                     /\ Emit(<<format_status_message(<<"Repository cloned successfully">>,
                                                     "success")>>,
                             "cloned")

\* Lines 135-138: os.chdir into the clone.
ChangeDir ==
  /\ pc = "cloned"
  /\ now' = now
  /\ UNCHANGED <<inputs, temp_dir, original_cwd, target, calls, fs, host>>
  /\ LET entry == format_status_message(
                    <<"Changing to repository directory: ">> \o temp_dir, "info")
     IN \/ /\ cwd' = temp_dir
           /\ chdirs' = Append(chdirs, Chdir(temp_dir, TRUE))
           /\ Emit(<<entry>>, "changed_dir")
        \/ /\ cwd' = cwd
           /\ chdirs' = Append(chdirs, Chdir(temp_dir, FALSE))
           /\ Emit(<<entry, FaultEntry("[Errno 13] Permission denied")>>, "faulted")

DockerfilePath == PathJoin(temp_dir, dockerfile_subdir, DockerfileName)

BuildContext == Join2(temp_dir, dockerfile_subdir)

\* Lines 141-149: is there a Dockerfile where the request says.
Locate ==
  /\ pc = "changed_dir"
  /\ now' = now
  /\ UNCHANGED <<inputs, temp_dir, original_cwd, target, cwd, fs, chdirs, host>>
  /\ IF DockerfilePath \notin fs
     THEN /\ calls' = Append(calls, Call("lookup", <<DockerfilePath>>, None, "failed", <<>>))
          /\ Emit(<<format_status_message(
                      <<"No Dockerfile found in the specified subdirectory: ">>
                        \o dockerfile_subdir, "error")>>,
                  "no_dockerfile")
     ELSE /\ calls' = Append(calls, Call("lookup", <<DockerfilePath>>, None, "ok", <<>>))
          /\ Emit(<<format_status_message(
                      <<"Dockerfile found in ">> \o dockerfile_subdir, "success")>>,
                  "located")

\* Lines 152-154.
AnnounceBuild ==
  /\ pc = "located"
  /\ now' = now
  /\ Emit(<<format_status_message(<<"Building Docker image: ">> \o full_image_name, "info")>>,
          "building")
  /\ UNCHANGED <<inputs, temp_dir, original_cwd, target, calls, cwd, fs, chdirs, host>>

\* Lines 155-166: docker build.
Build ==
  /\ pc = "building"
  /\ TimePasses
  /\ UNCHANGED <<inputs, temp_dir, original_cwd, target, cwd, fs, chdirs, host>>
  /\ LET build_cmd == <<Lit("docker"), Lit("build"), Lit("-t"), full_image_name, Lit("-f"),
                        DockerfilePath, BuildContext>>
     IN \/ /\ calls' = Append(calls, Call("build", build_cmd, None, "raised", <<>>))
           /\ Fault(NotStarted("docker"))
        \/ \E result \in ProcessResults :
             /\ calls' = Append(calls, Call("build", build_cmd, None, Exit(result),
                                            result.stderr))
             /\ IF Failed(result)
                THEN Emit(<<format_status_message(
                              FailureMessage(<<"Failed to build Docker image: ">>, result),
                              "error")>>,
                          "build_failed")
                ELSE Emit(<<format_status_message(<<"Docker image built successfully">>,
                                                  "success")>>,
                          "built")

\* Lines 168-170.
AnnouncePush ==
  /\ pc = "built"
  /\ now' = now
  /\ Emit(<<format_status_message(
              <<"Pushing Docker image to ">> \o registry_url \o <<"...">>, "info")>>,
          "pushing")
  /\ UNCHANGED <<inputs, temp_dir, original_cwd, target, calls, cwd, fs, chdirs, host>>

\* Lines 171-180: docker push.
Push ==
  /\ pc = "pushing"
  /\ TimePasses
  /\ UNCHANGED <<inputs, temp_dir, original_cwd, target, cwd, fs, chdirs, host>>
  /\ LET push_cmd == <<Lit("docker"), Lit("push"), full_image_name>>
     IN \/ /\ calls' = Append(calls, Call("push", push_cmd, None, "raised", <<>>))
           /\ Fault(NotStarted("docker"))
        \/ \E result \in ProcessResults :
             /\ calls' = Append(calls, Call("push", push_cmd, None, Exit(result),
                                            result.stderr))
             /\ IF Failed(result)
                THEN Emit(<<format_status_message(
                              FailureMessage(<<"Failed to push Docker image: ">>, result),
                              "error")>>,
                          "push_failed")
                ELSE Emit(<<format_status_message(
                              <<"Successfully built and pushed image: ">> \o full_image_name,
                              "success")>>,
                          "pushed")

SuccessMarker == <<"Build process completed successfully!">>

\* Lines 181-182.
Complete ==
  /\ pc = "pushed"
  /\ now' = now
  /\ Emit(<<format_status_message(SuccessMarker, "success")>>, "completed")
  /\ UNCHANGED <<inputs, temp_dir, original_cwd, target, calls, cwd, fs, chdirs, host>>

\* The yields after which the try block is left: by return, by falling off
\* its end, or at the end of the except clause.
ReturnPoints ==
  {"invalid", "auth_failed", "clone_failed", "no_dockerfile", "build_failed",
   "push_failed", "completed", "faulted"}

CleanedUp == <<"Cleaned up temporary directory: ">>

\* A teardown that also reports the change of directory.
CleanupEntriesVerbose ==
  <<format_status_message(<<"Restored working directory: ">> \o original_cwd, "info"),
    format_status_message(CleanedUp \o temp_dir, "info")>>

\* Line 195: what the teardown adds to the log.
CleanupEntries == <<format_status_message(CleanedUp \o temp_dir, "info")>>

\* A cleanup that runs only at the end of the try block.
NeedsCleanupOnSuccess == temp_dir # None /\ temp_dir \in fs /\ pc = "completed"

\* Line 193: if temp_dir and os.path.exists(temp_dir)
NeedsCleanup == temp_dir # None /\ temp_dir \in fs

\* A teardown that stays in the directory it is in.
RestoreTargetCurrent == cwd

\* Line 190: the directory the teardown goes back to.
RestoreTarget == original_cwd

\* Lines 189-192: os.chdir(original_cwd); an exception is passed over.
Restore ==
  \E restored \in BOOLEAN :
    /\ cwd' = IF restored THEN RestoreTarget ELSE cwd
    /\ chdirs' = Append(chdirs, Chdir(RestoreTarget, restored))

\* Lines 188-196, the finally clause: back to the first directory (a failure
\* of that is passed over), then shutil.rmtree of the temporary directory if
\* there is one.  rmtree can raise, with the directory left in place and its
\* contents removed or not; nothing catches that.
Teardown ==
  /\ pc \in ReturnPoints
  /\ now' = now
  /\ UNCHANGED <<inputs, temp_dir, original_cwd, target, host>>
  /\ Restore
  /\ IF NeedsCleanup
     THEN \/ /\ fs' = {p \in fs : ~Under(p, temp_dir)}
             /\ calls' = Append(calls, [Call("rmtree", <<temp_dir>>, None, "ok", <<>>)
                                       EXCEPT !.cwd = cwd'])
             /\ Emit(CleanupEntries, "cleaned")
          \/ /\ fs' \in {fs, {p \in fs : p = temp_dir \/ ~Under(p, temp_dir)}}
             /\ calls' = Append(calls, [Call("rmtree", <<temp_dir>>, None, "raised", <<>>)
                                       EXCEPT !.cwd = cwd'])
             /\ pc' = "raised"
             /\ UNCHANGED <<status_messages, yielded>>
     ELSE /\ pc' = "done"
          /\ UNCHANGED <<status_messages, yielded, calls, fs>>

\* After the last yield the generator is exhausted.
Exhaust ==
  /\ pc = "cleaned"
  /\ pc' = "done"
  /\ UNCHANGED <<inputs, temp_dir, status_messages, original_cwd, target, yielded, calls, cwd,
                 fs, now, chdirs, host>>

Next ==
  \/ Start
  \/ Announce
  \/ Login
  \/ Acquire
  \/ AnnounceClone
  \/ Clone
  \/ ChangeDir
  \/ Locate
  \/ AnnounceBuild
  \/ Build
  \/ AnnouncePush
  \/ Push
  \/ Complete
  \/ Teardown
  \/ Exhaust

Spec == Init /\ [][Next]_vars


\* -------------------------------------------------------------------------
\* A caller that may stop: generator.close() at any point where the
\* generator is suspended.
\* -------------------------------------------------------------------------

\* A close that drops the generator without running its finally clause.
CloseWithoutUnwinding ==
  /\ pc \notin {"done", "raised", "closed"}
  /\ pc' = "closed"
  /\ UNCHANGED <<inputs, temp_dir, status_messages, original_cwd, target, yielded, calls, cwd,
                 fs, now, chdirs, host>>

\* close() raises GeneratorExit at the yield where the generator is
\* suspended.  It is not an Exception, so line 183 does not catch it, and the
\* finally clause runs (lines 188-196) unless the generator has not started
\* or is already at the yield of the finally clause.  rmtree can raise; if it
\* does not, line 195 adds its entry and the yield of line 196 makes close()
\* raise RuntimeError: that snapshot reaches nobody.
Close ==
  /\ pc \notin {"done", "raised", "closed"}
  /\ pc' = "closed"
  /\ now' = now
  /\ UNCHANGED <<inputs, temp_dir, original_cwd, target, yielded, host>>
  /\ IF pc \in {"start", "cleaned"}
     THEN UNCHANGED <<status_messages, calls, cwd, fs, chdirs>>
     ELSE /\ Restore
          /\ IF NeedsCleanup
             THEN \/ /\ fs' = {p \in fs : ~Under(p, temp_dir)}
                     /\ calls' = Append(calls, [Call("rmtree", <<temp_dir>>, None, "ok", <<>>)
                                               EXCEPT !.cwd = cwd'])
                     /\ status_messages' = status_messages \o CleanupEntries
                  \/ /\ fs' \in {fs, {p \in fs : p = temp_dir \/ ~Under(p, temp_dir)}}
                     /\ calls' = Append(calls, [Call("rmtree", <<temp_dir>>, None, "raised",
                                                    <<>>) EXCEPT !.cwd = cwd'])
                     /\ UNCHANGED status_messages
             ELSE UNCHANGED <<status_messages, calls, fs>>

NextClose ==
  \/ Next
  \/ Close

SpecClose == Init /\ [][NextClose]_vars

\* -------------------------------------------------------------------------
\* Runs over every image name up to a length, to exercise
\* validate_image_name; the rest of the request is an ordinary one.
\* -------------------------------------------------------------------------

MaxNameLen == 3

\* One character of each kind the pattern tells apart, and of the kinds it
\* leaves out.
NameChars == {"a", "0", "A", "-", ".", "_", " ", "\n"}

NameTexts == UNION { [1..n -> NameChars] : n \in 0..MaxNameLen }

HttpsLocation == <<"h", "t", "t", "p", "s", ":", "/", "/", "h", "/", "a", "l", "/", "r">>

InitNames ==
  /\ image_name \in NameTexts
  /\ repo_url = HttpsLocation
  /\ registry_token \in Tokens
  /\ username = None
  /\ registry = GHCR
  /\ dockerfile_subdir = <<".">>
  /\ fs = {StartDir}
  /\ Fresh
  /\ event_queue = <<>>
  /\ active_jobs = {ThisRun}

SpecNames == InitNames /\ [][Next]_vars

\* -------------------------------------------------------------------------
\* Runs over repository locations of the two forms, to exercise
\* extract_github_username; the rest of the request is an ordinary one.
\* -------------------------------------------------------------------------

\* Hosts, with and without a user: a name, git's usual user, another user,
\* and a host that begins with a digit as an IP address does.
Hosts == { <<"h">>, <<"g", "i", "t", "@", "h">>, <<"x", "@", "h">>, <<"1", "h">> }

Accounts == { <<"a", "l">>, <<"b">> }

RepoNames == { <<"r">>, <<"r", ".", "g", "i", "t">> }

Schemes == { <<"h", "t", "t", "p", "s">>, <<"s", "s", "h">> }

\* host:account/repo
SshStyle(hostname, account, repo) == hostname \o <<":">> \o account \o <<"/">> \o repo

\* scheme://host/account/repo
UrlStyle(scheme, hostname, account, repo) ==
  scheme \o <<":", "/", "/">> \o hostname \o <<"/">> \o account \o <<"/">> \o repo

Locations ==
  { SshStyle(h, a, r) : h \in Hosts, a \in Accounts, r \in RepoNames }
    \cup { UrlStyle(s, h, a, r) : s \in Schemes, h \in Hosts, a \in Accounts, r \in RepoNames }

InitLocations ==
  /\ repo_url \in Locations
  /\ username \in Usernames
  /\ image_name = <<"a", "b">>
  /\ registry_token \in Tokens
  /\ registry = GHCR
  /\ dockerfile_subdir = <<".">>
  /\ fs = {StartDir}
  /\ Fresh
  /\ event_queue = <<>>
  /\ active_jobs = {ThisRun}

SpecLocations == InitLocations /\ [][Next]_vars

\* -------------------------------------------------------------------------
\* Runs with a caller that keeps asking for the next snapshot and external
\* calls that return: a step that can be taken is taken.  The requests are
\* valid ones, with the account given, and ones that end at validation or
\* at the resolution of the account.
\* -------------------------------------------------------------------------

InitFair ==
  /\ repo_url = <<"g", "i", "t", "@", "h">>
  /\ registry_token \in Tokens
  /\ image_name \in {<<"a", "b">>, <<>>}
  /\ username \in Usernames
  /\ registry = GHCR
  /\ dockerfile_subdir \in {<<".">>, <<"b">>}
  /\ fs = {StartDir}
  /\ Fresh
  /\ event_queue = <<>>
  /\ active_jobs = {ThisRun}

SpecFair == InitFair /\ [][Next]_vars /\ WF_vars(Next)

\* -------------------------------------------------------------------------
\* The hosting application, lines 251-260: the click event calls
\* build_and_push_image through the queue, with concurrency_limit=1.  Two
\* requests are followed: one whose run is described step by step above, and
\* a second whose run is described by what it does to the process: its
\* workspace and the working directory.
\* -------------------------------------------------------------------------

concurrency_limit == 1

Runs == {ThisRun, OtherRun}

\* The directory mkdtemp gives the second run: never the one of another run.
OtherTempDir == <<"/", "u">>

\* The run of a request has come to its end.
RunOver(r) == IF r = ThisRun THEN pc \in {"done", "raised"} ELSE other.pc = "done"

\* The request has not been made yet.
NotRequested(r) ==
  /\ r \notin active_jobs
  /\ \A i \in 1..Len(event_queue) : event_queue[i] # r
  /\ IF r = ThisRun THEN pc = "start" ELSE other.pc = "start"

\* A click: the request joins the queue of the event.
Click ==
  /\ \E r \in Runs :
       /\ NotRequested(r)
       /\ event_queue' = Append(event_queue, r)
  /\ UNCHANGED <<inputs, temp_dir, status_messages, original_cwd, target, pc, yielded, calls,
                 cwd, fs, now, chdirs, active_jobs, other>>

\* A queue that starts a waiting request whatever is running.
HasCapacityAlways == TRUE

\* Line 255: concurrency_limit=1, the number of requests of the event that
\* may be processed at the same time.
HasCapacity == Cardinality(active_jobs) < concurrency_limit

\* The queue starts the request that has waited longest.
Admit ==
  /\ event_queue # <<>>
  /\ HasCapacity
  /\ active_jobs' = active_jobs \cup {Head(event_queue)}
  /\ event_queue' = Tail(event_queue)
  /\ UNCHANGED <<inputs, temp_dir, status_messages, original_cwd, target, pc, yielded, calls,
                 cwd, fs, now, chdirs, other>>

\* The generator of a request is exhausted or has raised: the request is no
\* longer being processed.
Release ==
  /\ \E r \in active_jobs :
       /\ RunOver(r)
       /\ active_jobs' = active_jobs \ {r}
  /\ UNCHANGED <<inputs, temp_dir, status_messages, original_cwd, target, pc, yielded, calls,
                 cwd, fs, now, chdirs, event_queue, other>>

\* The second run, lines 78-119: it notes the working directory and, if it
\* gets that far, makes its workspace.
OtherStart ==
  /\ OtherRun \in active_jobs
  /\ other.pc = "start"
  /\ \/ /\ cwd \in fs
        /\ other' = [pc |-> "acquired", original_cwd |-> cwd]
        /\ fs' = fs \cup {OtherTempDir}
     \/ /\ other' = [pc |-> "done", original_cwd |-> IF cwd \in fs THEN cwd ELSE None]
        /\ fs' = fs
  /\ UNCHANGED <<inputs, temp_dir, status_messages, original_cwd, target, pc, yielded, calls,
                 cwd, now, chdirs, event_queue, active_jobs>>

\* The second run, lines 121-138: it clones and changes into its workspace.
OtherChangeDir ==
  /\ other.pc = "acquired"
  /\ cwd' = OtherTempDir
  /\ other' = [other EXCEPT !.pc = "changed_dir"]
  /\ UNCHANGED <<inputs, temp_dir, status_messages, original_cwd, target, pc, yielded, calls,
                 fs, now, chdirs, event_queue, active_jobs>>

\* The second run, lines 188-196: back to its first directory if os.chdir
\* succeeds, then the removal of its workspace, which can fail.
OtherTeardown ==
  /\ other.pc \in {"acquired", "changed_dir"}
  /\ \E restored \in BOOLEAN : cwd' = IF restored THEN other.original_cwd ELSE cwd
  /\ fs' \in {fs, {p \in fs : ~Under(p, OtherTempDir)}}
  /\ other' = [other EXCEPT !.pc = "done"]
  /\ UNCHANGED <<inputs, temp_dir, status_messages, original_cwd, target, pc, yielded, calls,
                 now, chdirs, event_queue, active_jobs>>

\* The application after launch: no request has been made.
InitQueue ==
  /\ repo_url = HttpsLocation
  /\ registry_token \in Tokens
  /\ image_name = <<"a", "b">>
  /\ username = None
  /\ registry = GHCR
  /\ dockerfile_subdir = <<".">>
  /\ fs = {StartDir}
  /\ Fresh
  /\ event_queue = <<>>
  /\ active_jobs = {}

NextQueue ==
  \/ Next
  \/ Click
  \/ Admit
  \/ Release
  \/ OtherStart
  \/ OtherChangeDir
  \/ OtherTeardown

SpecQueue == InitQueue /\ [][NextQueue]_vars

\* -------------------------------------------------------------------------
\* Properties of a run
\* -------------------------------------------------------------------------

\* The generator has finished: it is exhausted, or it ended by raising.
Ended == pc \in {"done", "raised"}

\* The steps of the pipeline in the order of the source.
PipelineOps == <<"login", "mkdtemp", "clone", "lookup", "build", "push">>

IsPipelineCall(c) == c.op # "rmtree"

IsRemoval(c) == c.op = "rmtree"

PipelineCalls == SelectSeq(calls, IsPipelineCall)

Removals == SelectSeq(calls, IsRemoval)

Performed(op) == \E i \in 1..Len(calls) : calls[i].op = op

Succeeded(op) == \E i \in 1..Len(calls) : calls[i].op = op /\ calls[i].outcome = "ok"

Created == Succeeded("mkdtemp")

IsError(entry) == entry.color = ErrorColor

ErrorEntries == SelectSeq(status_messages, IsError)

\* The entries of the except clause.
IsGenericError(entry) == entry.message[1] = "Error: "

GenericErrors == SelectSeq(status_messages, IsGenericError)

IsMarker(entry) == entry.message = SuccessMarker

\* The last snapshot the caller received.
LastSnapshot == yielded[Len(yielded)]

\* The five steps that can fail all succeeded.
AllSucceeded ==
  \A op \in {"login", "clone", "lookup", "build", "push"} : Succeeded(op)

IsPrefix(s, t) == Len(s) <= Len(t) /\ SubSeq(t, 1, Len(s)) = s

EndsWith(s, t) == Len(t) <= Len(s) /\ SubSeq(s, Len(s) - Len(t) + 1, Len(s)) = t

\* C1 as claimed: in every run, whichever step fails or if none fails, a
\* workspace directory that was created is removed exactly once before the
\* run ends, and it does not exist once the run has ended.
C1_RemovedOnceAndGone ==
  (Ended /\ Created /\ GenericErrors = <<>>) =>
    /\ Len(Removals) = 1
    /\ Removals[1].outcome = "ok"
    /\ temp_dir \notin fs

\* C1 as amended: the removal of a workspace directory that was created is
\* attempted exactly once, after the last step and before the run ends, and
\* never when none was created; the directory is gone once the run is done,
\* and it can only be left behind when that one removal itself failed, in
\* which case the run ends by raising.
C1_RemovalAttemptedOnce ==
  /\ Len(Removals) <= 1
  /\ Removals # <<>> => Created /\ pc \in {"cleaned", "done", "raised"}
  /\ (Ended /\ Created) => Len(Removals) = 1
  /\ (Created /\ pc \in {"cleaned", "done"}) =>
       /\ Removals[1].outcome = "ok"
       /\ \A p \in fs : ~Under(p, temp_dir)
  /\ pc = "raised" <=> (Removals # <<>> /\ Removals[1].outcome = "raised")

\* C1's case: a run whose clone failed is done and its directory is gone.
C1_Witness ==
  /\ pc = "done"
  /\ Created
  /\ \E i \in 1..Len(calls) : calls[i].op = "clone" /\ calls[i].outcome = "failed"
  /\ temp_dir \notin fs

\* C2: the steps happen only in the order login, workspace creation, clone,
\* descriptor lookup, build, push, each at most once, and a step is taken
\* only when every step before it succeeded: after the first failure no
\* later step is taken.
C2_StrictOrder ==
  /\ Len(PipelineCalls) <= Len(PipelineOps)
  /\ \A i \in 1..Len(PipelineCalls) :
       /\ PipelineCalls[i].op = PipelineOps[i]
       /\ i < Len(PipelineCalls) => PipelineCalls[i].outcome = "ok"

\* C2's case: the clone failed and the run is done with nothing after it.
C2_Witness ==
  /\ pc = "done"
  /\ Len(PipelineCalls) = 3
  /\ PipelineCalls[3].op = "clone"
  /\ PipelineCalls[3].outcome = "failed"

\* C3: when validate_image_name refuses the image name the run ends at
\* validation with one error entry and no external action: no login, no
\* workspace, no clone, no build, no push.
C3_InvalidNameNoExternalAction ==
  ~validate_image_name(image_name).is_valid =>
    /\ calls = <<>>
    /\ temp_dir = None
    /\ NewTempDir \notin fs
    /\ cwd = StartDir
    /\ pc \in {"start", "invalid", "done"}
    /\ pc # "start" =>
         /\ Len(status_messages) = 1
         /\ IsError(status_messages[1])
         /\ status_messages[1].message =
              <<"Invalid image name: ", validate_image_name(image_name).error_msg>>
         /\ yielded = <<_format_log(status_messages)>>

\* C3's case: a run with a refused name is done.
C3_Witness ==
  /\ pc = "done"
  /\ ~validate_image_name(image_name).is_valid
  /\ Len(yielded) = 1

\* The two forms of repository location that carry an account: host:account/
\* repo and scheme://host/account/repo, the account and the repository not
\* empty.
AccountAndRepo(s) ==
  LET parts == Split(s, "/")
  IN Len(parts) >= 2 /\ parts[1] # <<>> /\ parts[2] # <<>>

IsUrlStyle(loc) == Contains(loc, <<":", "/", "/">>)

HasAccountSegment(loc) ==
  IF IsUrlStyle(loc)
  THEN LET afterScheme == SubSeq(loc, Find(loc, ":") + 3, Len(loc))
           slash == Find(afterScheme, "/")
       IN slash > 1 /\ AccountAndRepo(SubSeq(afterScheme, slash + 1, Len(afterScheme)))
  ELSE LET colon == Find(loc, ":")
       IN colon > 1 /\ AccountAndRepo(SubSeq(loc, colon + 1, Len(loc)))

\* C4 as claimed: with no username given and a repository location that has
\* no account segment, the resolution of the account fails and ends the run:
\* an error entry, and no login, clone, build or push.
C4_UnparseableIsTerminal ==
  (username = <<>> /\ ~HasAccountSegment(repo_url)) =>
    /\ \A op \in {"login", "clone", "build", "push"} : ~Performed(op)
    /\ Ended => ErrorEntries # <<>>

\* C5 as claimed: on the full success path the success marker is the last
\* entry of the last snapshot the caller receives.
C5_MarkerIsTerminal ==
  (Ended /\ AllSucceeded) =>
    IsMarker(LastSnapshot.entries[Len(LastSnapshot.entries)])

\* C5 as amended: on the full success path the last snapshot holds the
\* success marker once, as the last entry the steps log; the only entry that
\* follows it is the one info entry of the teardown, which is there whenever
\* the run is done (the marker is last only when the removal of the
\* directory failed and the run ended by raising).
C5_MarkerThenOnlyCleanup ==
  (Ended /\ AllSucceeded) =>
    LET log == LastSnapshot.entries
        n == Len(log)
        k == IF pc = "done" THEN n - 1 ELSE n
    IN /\ k >= 1
       /\ IsMarker(log[k])
       /\ log[k].color = SuccessColor
       /\ \A i \in 1..n : IsMarker(log[i]) => i = k
       /\ pc = "done" =>
            /\ log[n].message = CleanedUp \o temp_dir
            /\ log[n].color = InfoColor

\* C5's case: a run in which every step succeeded is done.
C5_Witness == pc = "done" /\ AllSucceeded

\* C6 as claimed: a failure to remove the workspace in the teardown is
\* swallowed: it does not reach the caller, and the run is done all the same.
C6_TeardownFailureSwallowed ==
  (Removals # <<>> /\ Removals[1].outcome = "raised") => pc # "raised"

\* C7: each snapshot holds the entries of the one before it, unchanged and in
\* the same order, followed by at least one new entry.
C7_AppendOnly ==
  /\ \A i \in 1..(Len(yielded) - 1) :
       /\ IsPrefix(yielded[i].entries, yielded[i + 1].entries)
       /\ Len(yielded[i].entries) < Len(yielded[i + 1].entries)
       /\ yielded[i].open = yielded[i + 1].open
       /\ yielded[i].close = yielded[i + 1].close
  /\ yielded # <<>> => Len(yielded[1].entries) >= 1

\* C7's case: the fourteen snapshots of a run in which every step succeeded.
C7_Witness == pc = "done" /\ AllSucceeded /\ Len(yielded) = 14

\* C8: the log a finished run leaves holds the success marker or exactly one
\* error entry, never both and never neither; the marker is there exactly
\* when login, clone, descriptor lookup, build and push all succeeded; and
\* what was logged before a failure is still in the last snapshot.
C8_SuccessXorOneError ==
  Ended =>
    LET log == LastSnapshot.entries
        markers == Len(SelectSeq(log, IsMarker))
        errors == Len(SelectSeq(log, IsError))
    IN /\ \/ markers = 1 /\ errors = 0
          \/ markers = 0 /\ errors = 1
       /\ markers = 1 <=> AllSucceeded
       /\ \A i \in 1..Len(yielded) : IsPrefix(yielded[i].entries, log)
       /\ \A i \in 1..Len(status_messages) :
            IsError(status_messages[i]) => i <= Len(log) /\ log[i] = status_messages[i]

\* C8's case: the build failed; the log holds one error after the progress
\* made before it.
C8_Witness ==
  /\ pc = "done"
  /\ \E i \in 1..Len(calls) : calls[i].op = "build" /\ calls[i].outcome = "failed"
  /\ Len(ErrorEntries) = 1
  /\ Len(LastSnapshot.entries) > 8

\* C9: a non-zero exit status of login, clone, build or push fails the run
\* and adds an error entry that ends with the text of stderr as captured;
\* no later step is taken.
C9_NonZeroExitLogged ==
  \A i \in 1..Len(calls) :
    (calls[i].op \in {"login", "clone", "build", "push"} /\ calls[i].outcome = "failed") =>
      /\ i = Len(PipelineCalls)
      /\ Len(ErrorEntries) = 1
      /\ EndsWith(ErrorEntries[1].message, calls[i].stderr)
      /\ Len(ErrorEntries[1].message) = 1 + Len(calls[i].stderr)
           + (IF calls[i].op = "login" THEN Len(registry_url) + 1 ELSE 0)
      /\ \E j \in 1..Len(LastSnapshot.entries) : LastSnapshot.entries[j] = ErrorEntries[1]
      /\ SelectSeq(status_messages, IsMarker) = <<>>

\* C9's case: the clone failed with text on stderr, and the run is done.
C9_Witness ==
  /\ pc = "done"
  /\ \E i \in 1..Len(calls) :
       /\ calls[i].op = "clone"
       /\ calls[i].outcome = "failed"
       /\ calls[i].stderr = <<"e", "r", "r">>

\* C10 as claimed: a fault raised at a step is caught in the driver: one
\* generic error entry, the workspace removed, and the sequence of snapshots
\* ends without raising to the caller.
C10_FaultCaughtAndRunEndsQuietly ==
  GenericErrors # <<>> =>
    /\ Len(GenericErrors) = 1
    /\ pc # "raised"
    /\ (Ended /\ Created) => temp_dir \notin fs

\* C11: the registry token reaches only the standard input of the login: it
\* is in the argument list of no external call, on the standard input of no
\* other call, and in no entry of any snapshot.
C11_CredentialOnlyOnStdin ==
  /\ \A i \in 1..Len(calls) :
       /\ \A a \in 1..Len(calls[i].argv) : ~Contains(calls[i].argv[a], registry_token)
       /\ calls[i].op = "login" => calls[i].stdin = registry_token
       /\ calls[i].op # "login" => calls[i].stdin = None
  /\ \A i \in 1..Len(yielded) :
       \A j \in 1..Len(yielded[i].entries) :
         ~Contains(yielded[i].entries[j].message, registry_token)

\* C11's case: a run in which every step succeeded, the login given the
\* token, is done.
C11_Witness ==
  /\ pc = "done"
  /\ AllSucceeded
  /\ calls[1].op = "login"
  /\ calls[1].stdin = registry_token
  /\ registry_token # <<>>

\* The host and the image reference each registry is to get.
ExpectedHost ==
  IF registry = "Docker Hub" THEN <<"d", "o", "c", "k", "e", "r", ".", "i", "o">>
  ELSE <<"g", "h", "c", "r", ".", "i", "o">>

ExpectedReference(account) ==
  IF registry = "Docker Hub" THEN account \o <<"/">> \o image_name
  ELSE <<"g", "h", "c", "r", ".", "i", "o", "/">> \o account \o <<"/">> \o image_name

\* The target is computed: the run got past validation and the resolution of
\* the account.
TargetComputed ==
  pc \notin {"start", "invalid"} /\ ~(pc \in {"faulted", "done"} /\ calls = <<>>)

\* What C12 says of one state: the target is there before the login; the
\* login goes to the host of the registry with the account of the reference;
\* build and push get the same reference, ghcr.io/{account}/{name} for GHCR
\* and {account}/{name} for Docker Hub.
C12_TargetAsResolved ==
  /\ TargetComputed =>
       /\ registry_url = ExpectedHost
       /\ full_image_name = ExpectedReference(gh_username)
  /\ calls # <<>> => TargetComputed
  /\ \A i \in 1..Len(calls) :
       /\ calls[i].op = "login" =>
            /\ calls[i].argv[3] = ExpectedHost
            /\ calls[i].argv[5] = gh_username
       /\ calls[i].op = "build" => calls[i].argv[4] = ExpectedReference(calls[1].argv[5])
       /\ calls[i].op = "push" =>
            /\ calls[i].argv[3] = ExpectedReference(calls[1].argv[5])
            /\ \E j \in 1..(i - 1) : calls[j].op = "build" /\ calls[j].argv[4] = calls[i].argv[3]

\* C12: the resolved target is fixed before the login and never changes
\* afterwards, and it is the one the registry asks for.
C12_TargetFixed ==
  /\ []C12_TargetAsResolved
  /\ [][TargetComputed => target' = target]_vars

\* C12's case: a run to Docker Hub in which every step succeeded is done.
C12_Witness == pc = "done" /\ AllSucceeded /\ registry = DockerHub

\* The descriptor and the build context C13 names: the subdirectory taken
\* inside the workspace.
WorkspaceSubdir == temp_dir \o <<"/">> \o dockerfile_subdir

WorkspaceDockerfile == WorkspaceSubdir \o <<"/">> \o DockerfileName

\* C13: build is called only if {workspace}/{subdir}/Dockerfile exists, with
\* that file after -f and {workspace}/{subdir} as the context; a run whose
\* descriptor is absent logs an error and calls neither build nor push.
C13_BuildFromWorkspaceSubdir ==
  /\ \A i \in 1..Len(calls) :
       calls[i].op = "build" =>
         /\ calls[i].argv[6] = WorkspaceDockerfile
         /\ calls[i].argv[7] = WorkspaceSubdir
         /\ Under(calls[i].argv[7], temp_dir)
         /\ ~Performed("rmtree") => WorkspaceDockerfile \in fs
  /\ (Performed("lookup") /\ ~Performed("rmtree") /\ WorkspaceDockerfile \notin fs) =>
       /\ ~Performed("build")
       /\ ~Performed("push")
       /\ ErrorEntries # <<>>

\* The names C14 says are accepted: at least two characters, each a
\* lowercase letter, a digit, ".", "-" or "_", the first and the last a
\* lowercase letter or a digit.
WellFormedName(s) ==
  /\ Len(s) >= 2
  /\ \A i \in 1..Len(s) : s[i] \in LowerChars \cup DigitChars \cup {".", "-", "_"}
  /\ s[1] \in LowerChars \cup DigitChars
  /\ s[Len(s)] \in LowerChars \cup DigitChars

\* The run refused the image name.
Refused == status_messages # <<>> /\ status_messages[1].message[1] = "Invalid image name: "

\* C14: once the run has validated the name, validate_image_name returned Ok
\* exactly if the name is well formed, and for every other name it returned
\* Invalid with a reason that is not empty, which the run logs.
C14_OkExactlyWellFormed ==
  pc # "start" =>
    LET v == validate_image_name(image_name)
    IN /\ v.is_valid <=> WellFormedName(image_name)
       /\ ~v.is_valid => v.error_msg # ""
       /\ Refused <=> ~WellFormedName(image_name)
       /\ Refused => status_messages[1].message[2] # ""

\* The run has resolved the namespace: it is past lines 88-94.
Resolved == pc # "start" /\ gh_username # None

\* C15: the namespace is the override when there is one; otherwise it is the
\* account of the location, for host:account/repo and for
\* scheme://host/account/repo alike, so that two locations with the same
\* account give the same namespace.
C15_OverrideElseAccount ==
  /\ pc # "start" => Resolved
  /\ Resolved =>
       /\ username # <<>> => gh_username = username
       /\ username = <<>> =>
            \A h \in Hosts, a \in Accounts, r \in RepoNames :
              /\ repo_url = SshStyle(h, a, r) => gh_username = a
              /\ \A s \in Schemes : repo_url = UrlStyle(s, h, a, r) => gh_username = a

\* A run is in flight from its first step until it is over.
ThisInFlight == pc \notin {"start", "done", "raised"}

OtherInFlight == other.pc \notin {"start", "done"}

C17_ReachesDone ==
  /\ <>(pc \in ReturnPoints)
  /\ [](pc \in ReturnPoints => <>(pc = "done"))

\* C18 as stated: when the caller closes the sequence the run makes no
\* further call of login, mkdtemp, clone, lookup, build or push, and a
\* workspace that was created does not exist afterwards.
C18_ClosedWorkspaceGone ==
  /\ [][pc' = "closed" => PipelineCalls' = PipelineCalls]_vars
  /\ [][pc = "closed" => UNCHANGED vars]_vars
  /\ [](pc = "closed" /\ Created => temp_dir \notin fs)

\* C18 amended: no further call of the pipeline, and the removal of a
\* workspace that was created is attempted exactly once, by the close unless
\* the teardown had made it already; the workspace is gone unless that removal
\* raised.
C18_ClosedRemovalAttempted ==
  /\ [][pc' = "closed" => PipelineCalls' = PipelineCalls]_vars
  /\ [][pc = "closed" => UNCHANGED vars]_vars
  /\ [](pc = "closed" /\ Created =>
          /\ Len(Removals) = 1
          /\ Removals[1].argv = <<temp_dir>>
          /\ calls[Len(calls)] = Removals[1]
          /\ Removals[1].outcome = "ok" => \A p \in fs : ~Under(p, temp_dir))

\* C18's case: the caller closed the sequence after the clone, before the
\* lookup of the Dockerfile, and the workspace is gone.
C18_Witness ==
  /\ pc = "closed"
  /\ Succeeded("clone")
  /\ ~Performed("lookup")
  /\ temp_dir \notin fs

\* The working directory changes only into the run's own workspace, after a
\* clone that succeeded, or back to the directory the run started in.
OwnWorkspaceOrBack ==
  cwd' # cwd =>
    \/ cwd' = temp_dir /\ temp_dir # None /\ Succeeded("clone")
    \/ cwd' = original_cwd

LastChdir == chdirs[Len(chdirs)]

\* C19 as stated: the working directory changes only into the run's own
\* workspace after a successful clone; when the run is done it is the
\* directory the run started in; and no removal happens with the workspace as
\* the working directory.
C19_RestoredBeforeRemoval ==
  /\ [][OwnWorkspaceOrBack]_vars
  /\ [](pc = "done" => cwd = original_cwd /\ cwd = StartDir)
  /\ [](\A i \in 1..Len(calls) : calls[i].op = "rmtree" => ~Under(calls[i].cwd, temp_dir))

\* C19 amended: the working directory changes only into the run's own
\* workspace after a successful clone; the teardown calls
\* os.chdir(original_cwd) before it removes anything; if that call succeeds
\* the working directory is the first one when the workspace is removed and
\* when the run is over, and if it fails the working directory stays where it
\* was.
C19_RestoreAttemptedBeforeRemoval ==
  /\ [][OwnWorkspaceOrBack]_vars
  /\ [][Len(Removals') > Len(Removals) =>
          /\ Len(chdirs') = Len(chdirs) + 1
          /\ chdirs'[Len(chdirs')].to = original_cwd
          /\ Removals'[Len(Removals')].cwd = cwd']_vars
  /\ [](pc \in {"cleaned", "done", "raised"} =>
          /\ chdirs # <<>>
          /\ LastChdir.to = original_cwd
          /\ original_cwd = StartDir
          /\ LastChdir.ok => cwd = original_cwd
          /\ ~LastChdir.ok =>
               cwd = IF Len(chdirs) = 2 /\ chdirs[1].ok THEN temp_dir ELSE original_cwd
          /\ \A i \in 1..Len(calls) :
               (calls[i].op = "rmtree" /\ LastChdir.ok) => calls[i].cwd = original_cwd)

\* C19's case: the run changed into its workspace, went back, removed the
\* workspace and is done in the directory it started in.
C19_Witness ==
  /\ pc = "done"
  /\ AllSucceeded
  /\ Len(chdirs) = 2
  /\ chdirs[1] = Chdir(temp_dir, TRUE)
  /\ chdirs[2] = Chdir(StartDir, TRUE)
  /\ cwd = StartDir
  /\ temp_dir \notin fs

====
